---- MODULE Spec2Model ----
(***************************************************************************)
(* AnythingLLM MCP server (src/anythingllm_mcp.py): the Dispatcher (_api), *)
(* the Error Normalizer (_handle_error), the validation helpers and the    *)
(* tool functions, as a state machine over tool invocations.               *)
(*                                                                         *)
(* Python strings are TLA+ strings (TLC evaluates Len, SubSeq and \o on    *)
(* them), so that an output is compared character by character.            *)
(***************************************************************************)
EXTENDS Integers, Sequences, FiniteSets, TLC

(***************************************************************************)
(* Strings                                                                 *)
(***************************************************************************)

\* Python: t in s
Contains(s, t) ==
    \E i \in 1..(Len(s) - Len(t) + 1) : SubSeq(s, i, i + Len(t) - 1) = t

\* Python: s.startswith(t)
StartsWith(s, t) == Len(s) >= Len(t) /\ SubSeq(s, 1, Len(t)) = t

CharAt(s, i) == SubSeq(s, i, i)

\* F(x), with x evaluated once
Bind(x, F(_)) == CHOOSE y \in {F(v) : v \in {x}} : TRUE

IsSpace(c) == c \in {" ", "\n", "\t", "\r"}

RECURSIVE lstrip(_)
lstrip(s) ==
    IF Len(s) > 0 /\ IsSpace(CharAt(s, 1)) THEN lstrip(SubSeq(s, 2, Len(s))) ELSE s

RECURSIVE rstrip(_)
rstrip(s) ==
    IF Len(s) > 0 /\ IsSpace(CharAt(s, Len(s)))
    THEN rstrip(SubSeq(s, 1, Len(s) - 1))
    ELSE s

\* Python: s.strip()
strip(s) == rstrip(lstrip(s))

(***************************************************************************)
(* Numbers.  A Python int or float is held in tenths, with its type: the   *)
(* int 20 is Int(20), the float 0.5 is Float(5).  Comparison is numeric    *)
(* across the two types, as in Python; str() differs ("1" and "1.0").      *)
(***************************************************************************)

None == [t |-> "none"]

PyBool(b) == [t |-> "bool", v |-> b]

PyStr(s) == [t |-> "str", v |-> s]

\* a Python list: its items in order
PyList(items) == [t |-> "list", v |-> items]

\* a Python dict: its <<key, value>> pairs in insertion order
PyDict(pairs) == [t |-> "dict", v |-> pairs]

HasKey(pairs, k) == \E i \in 1..Len(pairs) : pairs[i][1] = k

\* Python: d[k] = val (a key already there keeps its place)
DictSet(pairs, k, val) ==
    IF HasKey(pairs, k)
    THEN [i \in 1..Len(pairs) |-> IF pairs[i][1] = k THEN <<k, val>> ELSE pairs[i]]
    ELSE Append(pairs, <<k, val>>)

\* Python: d.get(k, default), d a PyDict
DictGet(d, k, default) ==
    IF HasKey(d.v, k)
    THEN d.v[CHOOSE i \in 1..Len(d.v) : d.v[i][1] = k][2]
    ELSE default

PyInt(n) == [t |-> "int", tenths |-> 10 * n]

PyFloat(tenths) == [t |-> "float", tenths |-> tenths]

IsNum(v) == v.t \in {"int", "float"}

Abs(n) == IF n < 0 THEN 0 - n ELSE n

\* Python: str(v) / f"{v}" of an int or a float
NumStr(v) ==
    LET a == Abs(v.tenths)
        sign == IF v.tenths < 0 THEN "-" ELSE ""
    IN  IF v.t = "int"
        THEN sign \o ToString(a \div 10)
        ELSE sign \o ToString(a \div 10) \o "." \o ToString(a % 10)

(***************************************************************************)
(* JSON text: json.dumps and json.loads on the values above.               *)
(***************************************************************************)

EscapeChar(c) ==
    CASE c = "\"" -> "\\\""
      [] c = "\\" -> "\\\\"
      [] c = "\n" -> "\\n"
      [] c = "\r" -> "\\r"
      [] c = "\t" -> "\\t"
      [] OTHER -> c

\* the characters lo..hi of s, each escaped (by halves: a shallow recursion)
RECURSIVE EscapeRange(_, _, _)
EscapeRange(s, lo, hi) ==
    IF lo > hi THEN ""
    ELSE IF lo = hi THEN EscapeChar(CharAt(s, lo))
    ELSE EscapeRange(s, lo, (lo + hi) \div 2)
         \o EscapeRange(s, (lo + hi) \div 2 + 1, hi)

\* json.dumps of a str with ensure_ascii=False (and, for the characters the
\* model draws, with ensure_ascii=True): quoted and escaped
DumpsStr(s) == "\"" \o EscapeRange(s, 1, Len(s)) \o "\""

RECURSIVE Spaces(_)
Spaces(n) == IF n <= 0 THEN "" ELSE " " \o Spaces(n - 1)

\* json.dumps(v, indent=2 if pretty else None), at nesting depth `level`
RECURSIVE DumpsAt(_, _, _)
RECURSIVE DumpsItems(_, _, _, _)
RECURSIVE DumpsPairs(_, _, _, _)
DumpsAt(v, pretty, level) ==
    CASE v.t = "none"  -> "null"
      [] v.t = "bool"  -> (IF v.v THEN "true" ELSE "false")
      [] v.t = "int"   -> NumStr(v)
      [] v.t = "float" -> NumStr(v)
      [] v.t = "str"   -> DumpsStr(v.v)
      [] v.t = "list"  ->
            IF Len(v.v) = 0 THEN "[]"
            ELSE IF pretty
                 THEN "[\n" \o DumpsItems(v.v, 1, pretty, level + 1)
                      \o "\n" \o Spaces(2 * level) \o "]"
                 ELSE "[" \o DumpsItems(v.v, 1, pretty, level + 1) \o "]"
      [] v.t = "dict"  ->
            IF Len(v.v) = 0 THEN "{}"
            ELSE IF pretty
                 THEN "{\n" \o DumpsPairs(v.v, 1, pretty, level + 1)
                      \o "\n" \o Spaces(2 * level) \o "}"
                 ELSE "{" \o DumpsPairs(v.v, 1, pretty, level + 1) \o "}"
DumpsItems(items, i, pretty, level) ==
    LET one == (IF pretty THEN Spaces(2 * level) ELSE "")
               \o DumpsAt(items[i], pretty, level)
    IN  IF i = Len(items) THEN one
        ELSE one \o (IF pretty THEN ",\n" ELSE ", ")
             \o DumpsItems(items, i + 1, pretty, level)
DumpsPairs(pairs, i, pretty, level) ==
    LET one == (IF pretty THEN Spaces(2 * level) ELSE "")
               \o DumpsStr(pairs[i][1]) \o ": "
               \o DumpsAt(pairs[i][2], pretty, level)
    IN  IF i = Len(pairs) THEN one
        ELSE one \o (IF pretty THEN ",\n" ELSE ", ")
             \o DumpsPairs(pairs, i + 1, pretty, level)

\* json.dumps(v): the compact form _handle_error uses
json_dumps(v) == DumpsAt(v, FALSE, 0)

Fail(i) == [ok |-> FALSE, val |-> None, pos |-> i]

Parsed(v, i) == [ok |-> TRUE, val |-> v, pos |-> i]

\* the first position from i on that holds no white space
RECURSIVE SkipWs(_, _)
SkipWs(s, i) ==
    IF i <= Len(s) /\ IsSpace(CharAt(s, i)) THEN SkipWs(s, i + 1) ELSE i

IsDigit(c) == c \in {"0", "1", "2", "3", "4", "5", "6", "7", "8", "9"}

DigitVal(c) == CHOOSE d \in 0..9 : ToString(d) = c

\* the digits from position i on: [n |-> their value, pos |-> the position after them]
RECURSIVE ParseDigits(_, _, _)
ParseDigits(s, i, acc) ==
    IF i <= Len(s) /\ IsDigit(CharAt(s, i))
    THEN ParseDigits(s, i + 1, 10 * acc + DigitVal(CharAt(s, i)))
    ELSE [n |-> acc, pos |-> i]

\* a JSON number: -?digits, or -?digits.digit (one fractional digit: tenths)
NumberFrom(s, i, j, sgn, whole) ==
    IF whole.pos = j \/ (CharAt(s, j) = "0" /\ whole.pos > j + 1) THEN Fail(i)
    ELSE IF whole.pos <= Len(s) /\ CharAt(s, whole.pos) = "."
         THEN IF whole.pos + 1 <= Len(s) /\ IsDigit(CharAt(s, whole.pos + 1))
                 /\ ~(whole.pos + 2 <= Len(s) /\ IsDigit(CharAt(s, whole.pos + 2)))
              THEN Parsed(PyFloat(sgn * (10 * whole.n
                              + DigitVal(CharAt(s, whole.pos + 1)))),
                          whole.pos + 2)
              ELSE Fail(i)
         ELSE Parsed([t |-> "int", tenths |-> sgn * 10 * whole.n], whole.pos)

ParseNumber(s, i) ==
    IF i <= Len(s) /\ CharAt(s, i) = "-"
    THEN Bind(ParseDigits(s, i + 1, 0), LAMBDA whole : NumberFrom(s, i, i + 1, 0 - 1, whole))
    ELSE Bind(ParseDigits(s, i, 0), LAMBDA whole : NumberFrom(s, i, i, 1, whole))

UnescapeChar(c) ==
    CASE c = "n" -> "\n"
      [] c = "r" -> "\r"
      [] c = "t" -> "\t"
      [] OTHER -> c

\* the least member of a non-empty set of numbers
Min(S) == CHOOSE j \in S : \A k \in S : j <= k

\* the greatest member of a non-empty set of numbers
Max(S) == CHOOSE j \in S : \A k \in S : j >= k

\* the number of backslashes that end just before position j, none of them
\* before position i
BackslashRun(s, i, j) ==
    IF j - 1 < i \/ CharAt(s, j - 1) # "\\" THEN 0
    ELSE IF j - 2 < i \/ CharAt(s, j - 2) # "\\" THEN 1
    ELSE j - 1 - Max({k \in (i - 1)..(j - 1) : k < i \/ CharAt(s, k) # "\\"})

\* position j is the character a backslash escapes, in the string begun at i
EscapedAt(s, i, j) == BackslashRun(s, i, j) % 2 = 1

\* the characters of s from a to b with their escapes undone, in the string
\* begun at i
RECURSIVE Unescape(_, _, _, _)
Unescape(s, i, a, b) ==
    IF a > b THEN ""
    ELSE IF \A j \in a..b : CharAt(s, j) # "\\" /\ ~EscapedAt(s, i, j)
         THEN SubSeq(s, a, b)
    ELSE IF a = b
         THEN IF EscapedAt(s, i, a) THEN UnescapeChar(CharAt(s, a)) ELSE ""
    ELSE Bind((a + b) \div 2, LAMBDA m :
           Unescape(s, i, a, m) \o Unescape(s, i, m + 1, b))

\* the characters of the JSON string begun at i whose closing quote is at j
CharsFrom(s, i, acc, j) ==
    IF \A k \in i..(j - 1) :
           /\ CharAt(s, k) \notin {"\n", "\r", "\t"}
           /\ EscapedAt(s, i, k) => CharAt(s, k) \in {"\"", "\\", "/", "n", "r", "t"}
    THEN Parsed(acc \o Unescape(s, i, i, j - 1), j + 1)
    ELSE Fail(i)

\* the characters of a JSON string from position i (after its opening quote)
\* up to its closing quote, the first quote that no backslash escapes; `acc`
\* is put before them
ParseChars(s, i, acc) ==
    Bind({j \in i..Len(s) : CharAt(s, j) = "\"" /\ ~EscapedAt(s, i, j)},
         LAMBDA quotes :
           IF quotes = {} THEN Fail(i) ELSE CharsFrom(s, i, acc, Min(quotes)))

IsAt(s, i, word) ==
    i + Len(word) - 1 <= Len(s) /\ SubSeq(s, i, i + Len(word) - 1) = word

\* what follows a member of an array or object at position j: the closing
\* bracket `close`, or a comma and the next member
Step(s, j, close, key, val) ==
    IF j > Len(s) THEN [k |-> "fail"]
    ELSE IF CharAt(s, j) = close
         THEN [k |-> "end", key |-> key, val |-> val, pos |-> j + 1]
    ELSE IF CharAt(s, j) = ","
         THEN [k |-> "more", key |-> key, val |-> val, pos |-> SkipWs(s, j + 1)]
         ELSE [k |-> "fail"]

RECURSIVE ParseValue(_, _)
RECURSIVE ParseItems(_, _, _)
RECURSIVE ParsePairs(_, _, _)
RECURSIVE ItemStep(_, _)
RECURSIVE PairStep(_, _)
RECURSIVE PairValue(_, _, _)
ParseValue(s, i) ==
    IF i > Len(s) THEN Fail(i)
    ELSE Bind(CharAt(s, i), LAMBDA c :
           CASE c = "\"" ->
                  Bind(ParseChars(s, i + 1, ""), LAMBDA r :
                    IF r.ok THEN Parsed(PyStr(r.val), r.pos) ELSE Fail(i))
             [] c = "[" ->
                  Bind(SkipWs(s, i + 1), LAMBDA j :
                    IF j <= Len(s) /\ CharAt(s, j) = "]"
                    THEN Parsed(PyList(<<>>), j + 1)
                    ELSE ParseItems(s, j, <<>>))
             [] c = "{" ->
                  Bind(SkipWs(s, i + 1), LAMBDA j :
                    IF j <= Len(s) /\ CharAt(s, j) = "}"
                    THEN Parsed(PyDict(<<>>), j + 1)
                    ELSE ParsePairs(s, j, <<>>))
             [] c = "t" /\ IsAt(s, i, "true") -> Parsed(PyBool(TRUE), i + 4)
             [] c = "f" /\ IsAt(s, i, "false") -> Parsed(PyBool(FALSE), i + 5)
             [] c = "n" /\ IsAt(s, i, "null") -> Parsed(None, i + 4)
             [] OTHER -> ParseNumber(s, i))
\* the item of an array at position i, and what follows it
ItemStep(s, i) ==
    Bind(ParseValue(s, i), LAMBDA r :
      IF r.ok THEN Step(s, SkipWs(s, r.pos), "]", "", r.val) ELSE [k |-> "fail"])
\* the items of an array from position i on, `acc` those parsed so far
ParseItems(s, i, acc) ==
    Bind(ItemStep(s, i), LAMBDA st :
      IF st.k = "fail" THEN Fail(i)
      ELSE IF st.k = "end" THEN Parsed(PyList(Append(acc, st.val)), st.pos)
      ELSE ParseItems(s, st.pos, Append(acc, st.val)))
\* the value of the member whose key `k` was parsed, and what follows it
PairValue(s, k, c) ==
    IF c <= Len(s) /\ CharAt(s, c) = ":"
    THEN Bind(ParseValue(s, SkipWs(s, c + 1)), LAMBDA r :
           IF r.ok THEN Step(s, SkipWs(s, r.pos), "}", k.val, r.val)
           ELSE [k |-> "fail"])
    ELSE [k |-> "fail"]
\* the member of an object at position i, and what follows it
PairStep(s, i) ==
    IF i <= Len(s) /\ CharAt(s, i) = "\""
    THEN Bind(ParseChars(s, i + 1, ""), LAMBDA k :
           IF k.ok THEN PairValue(s, k, SkipWs(s, k.pos)) ELSE [k |-> "fail"])
    ELSE [k |-> "fail"]
\* the members of an object from position i on, `acc` those parsed so far
ParsePairs(s, i, acc) ==
    Bind(PairStep(s, i), LAMBDA st :
      IF st.k = "fail" THEN Fail(i)
      ELSE IF st.k = "end" THEN Parsed(PyDict(DictSet(acc, st.key, st.val)), st.pos)
      ELSE ParsePairs(s, st.pos, DictSet(acc, st.key, st.val)))

\* json.loads(s) / response.json(): ok is FALSE where Python raises
\* JSONDecodeError
json_loads(s) ==
    Bind(ParseValue(s, SkipWs(s, 1)), LAMBDA r :
      IF r.ok /\ SkipWs(s, r.pos) = Len(s) + 1
      THEN [ok |-> TRUE, val |-> r.val]
      ELSE [ok |-> FALSE, val |-> None])

(***************************************************************************)
(* str() and repr() of a value, as an f-string interpolates it.            *)
(***************************************************************************)

ReprChar(c, quote) ==
    CASE c = "\\" -> "\\\\"
      [] c = "\n" -> "\\n"
      [] c = "\r" -> "\\r"
      [] c = "\t" -> "\\t"
      [] c = quote -> "\\" \o c
      [] OTHER -> c

RECURSIVE ReprRange(_, _, _, _)
ReprRange(s, lo, hi, quote) ==
    IF lo > hi THEN ""
    ELSE IF lo = hi THEN ReprChar(CharAt(s, lo), quote)
    ELSE ReprRange(s, lo, (lo + hi) \div 2, quote)
         \o ReprRange(s, (lo + hi) \div 2 + 1, hi, quote)

\* repr of a str: single quotes, unless it holds a ' and no "
ReprStr(s) ==
    LET quote == IF Contains(s, "'") /\ ~Contains(s, "\"") THEN "\"" ELSE "'"
    IN  quote \o ReprRange(s, 1, Len(s), quote) \o quote

RECURSIVE PyRepr(_)
RECURSIVE ReprItems(_, _)
RECURSIVE ReprPairs(_, _)
PyRepr(v) ==
    CASE v.t = "none"  -> "None"
      [] v.t = "bool"  -> (IF v.v THEN "True" ELSE "False")
      [] v.t = "int"   -> NumStr(v)
      [] v.t = "float" -> NumStr(v)
      [] v.t = "str"   -> ReprStr(v.v)
      [] v.t = "list"  -> "[" \o ReprItems(v.v, 1) \o "]"
      [] v.t = "dict"  -> "{" \o ReprPairs(v.v, 1) \o "}"
ReprItems(items, i) ==
    IF i > Len(items) THEN ""
    ELSE PyRepr(items[i]) \o (IF i < Len(items) THEN ", " ELSE "")
         \o ReprItems(items, i + 1)
ReprPairs(pairs, i) ==
    IF i > Len(pairs) THEN ""
    ELSE ReprStr(pairs[i][1]) \o ": " \o PyRepr(pairs[i][2])
         \o (IF i < Len(pairs) THEN ", " ELSE "") \o ReprPairs(pairs, i + 1)

\* f"{v}": a str as it is, anything else by its repr
Format(v) == IF v.t = "str" THEN v.v ELSE PyRepr(v)

\* type(v).__name__
TypeName(v) == IF v.t = "none" THEN "NoneType" ELSE v.t

(***************************************************************************)
(* Exceptions: the class of the object raised and str() of it.  Bases      *)
(* gives each class's ancestors (itself included): the built-in ones, and  *)
(* httpx's HTTPError tree, in which a timeout and a connection failure     *)
(* are both TransportErrors, hence RequestErrors.                          *)
(***************************************************************************)

Bases(cls) ==
    CASE cls = "RuntimeError"     -> {"RuntimeError", "Exception"}
      [] cls = "ValueError"       -> {"ValueError", "Exception"}
      [] cls = "TypeError"        -> {"TypeError", "Exception"}
      [] cls = "AttributeError"   -> {"AttributeError", "Exception"}
      [] cls = "JSONDecodeError"  -> {"JSONDecodeError", "ValueError", "Exception"}
      [] cls = "HTTPStatusError"  -> {"HTTPStatusError", "HTTPError", "Exception"}
      [] cls = "TimeoutException" ->
            {"TimeoutException", "TransportError", "RequestError", "HTTPError",
             "Exception"}
      [] cls = "ReadTimeout"      ->
            {"ReadTimeout", "TimeoutException", "TransportError", "RequestError",
             "HTTPError", "Exception"}
      [] cls = "ConnectTimeout"   ->
            {"ConnectTimeout", "TimeoutException", "TransportError", "RequestError",
             "HTTPError", "Exception"}
      [] cls = "ConnectError"     ->
            {"ConnectError", "NetworkError", "TransportError", "RequestError",
             "HTTPError", "Exception"}
      [] cls = "ReadError"        ->
            {"ReadError", "NetworkError", "TransportError", "RequestError",
             "HTTPError", "Exception"}

\* Python: isinstance(e, cls)
IsInstance(e, cls) == cls \in Bases(e.cls)

\* an exception raised locally or by the transport (no response attached)
Raise(cls, msg) == [cls |-> cls, msg |-> msg, status |-> 0, text |-> ""]

\* what response.raise_for_status() raises: it carries the response
HTTPStatusError(status, text) ==
    [cls |-> "HTTPStatusError", msg |-> "HTTP status " \o ToString(status),
     status |-> status, text |-> text]

(***************************************************************************)
(* The bodies the upstream service answers with, and json_loads of each,   *)
(* evaluated once.                                                         *)
(***************************************************************************)

JsonType == "application/json; charset=utf-8"

SuccessBodies ==
    {"{\"ok\": true}",
     "{\"workspaces\": [{\"id\": 7, \"name\": \"W\", \"slug\": \"w\", \"threads\": [{\"id\": 1}], \"createdAt\": \"d\"}]}",
     "{\"workspaces\": [{\"id\": 1, \"name\": \"A\", \"slug\": \"a\", \"chatMode\": \"query\", \"vectorSearchMode\": \"rerank\", \"threads\": [{\"id\": 1}, {\"id\": 2}], \"createdAt\": \"d1\", \"openAiPrompt\": \"p\"}, {\"id\": 2, \"name\": \"B\", \"slug\": \"b\", \"createdAt\": \"d2\"}]}",
     "{\"settings\": {\"LLMProvider\": \"openai\", \"OpenAiKey\": \"sk-1\", \"VectorDB\": null, \"MultiUserMode\": false}}",
     "[1, \"a\\\"b\"]",
     "null",
     "Workspace \"w\" deleted",
     ""}

ErrorBodies == {"{\"error\": \"bad\"}", "Not here", "[\"e1\"]"}

ParsedBodies == [s \in SuccessBodies \cup ErrorBodies |-> json_loads(s)]

\* response.json(): json.loads of the body text
response_json(text) ==
    IF text \in DOMAIN ParsedBodies THEN ParsedBodies[text] ELSE json_loads(text)

(***************************************************************************)
(* Configuration and shared utilities                                      *)
(***************************************************************************)

RECURSIVE rstrip_slash(_)
rstrip_slash(s) ==
    IF Len(s) > 0 /\ CharAt(s, Len(s)) = "/"
    THEN rstrip_slash(SubSeq(s, 1, Len(s) - 1))
    ELSE s

\* ANYTHINGLLM_BASE_URL is not set in the environment: the default, rstrip("/")
API_BASE_URL == rstrip_slash("http://localhost:3001")

\* a call that returned normally
Ok(v) == [ok |-> TRUE, val |-> v]

\* a call that raised e
Raised(e) == [ok |-> FALSE, exc |-> e]

\* the check without strip(): a blank credential passes
RequireApiKeyNoStrip(key) ==
    IF key = ""
    THEN Raised(Raise("RuntimeError",
             "ANYTHINGLLM_API_KEY is not set. Configure it before using this MCP server."))
    ELSE Ok(None)

_require_api_key(key) ==
    IF strip(key) = ""
    THEN Raised(Raise("RuntimeError",
             "ANYTHINGLLM_API_KEY is not set. Configure it before using this MCP server."))
    ELSE Ok(None)

\* a payload that is no dict taken for an empty one
AsDictEmpty(payload, endpoint) ==
    IF payload.t = "dict" THEN Ok(payload) ELSE Ok(PyDict(<<>>))

_as_dict(payload, endpoint) ==
    IF payload.t = "dict" THEN Ok(payload)
    ELSE Raised(Raise("TypeError",
             "Unexpected response type from '" \o endpoint \o "'. "
             \o "Expected object, got " \o TypeName(payload) \o "."))

\* the check with its lower bound forgotten
ValidateRangeUpperOnly(name, value, minimum, maximum) ==
    IF value.tenths > maximum.tenths
    THEN Raised(Raise("ValueError",
             name \o " must be between " \o NumStr(minimum) \o " and "
             \o NumStr(maximum) \o "."))
    ELSE Ok(None)

_validate_range(name, value, minimum, maximum) ==
    IF value.tenths < minimum.tenths \/ value.tenths > maximum.tenths
    THEN Raised(Raise("ValueError",
             name \o " must be between " \o NumStr(minimum) \o " and "
             \o NumStr(maximum) \o "."))
    ELSE Ok(None)

\* the table with its 429 entry missing
StatusMessageNo429(status) ==
    CASE status = 401 -> "Authentication failed. Check your ANYTHINGLLM_API_KEY."
      [] status = 403 -> "Permission denied. Your API key may lack required permissions."
      [] status = 404 -> "Resource not found. Check the slug or ID."
      [] status = 500 ->
            "Internal server error in AnythingLLM. Check LLM provider connectivity."
      [] OTHER -> "API error (HTTP " \o ToString(status) \o ")."

\* messages.get(status, f"API error (HTTP {status}).")
StatusMessage(status) ==
    CASE status = 401 -> "Authentication failed. Check your ANYTHINGLLM_API_KEY."
      [] status = 403 -> "Permission denied. Your API key may lack required permissions."
      [] status = 404 -> "Resource not found. Check the slug or ID."
      [] status = 429 -> "Rate limit exceeded. Wait before retrying."
      [] status = 500 ->
            "Internal server error in AnythingLLM. Check LLM provider connectivity."
      [] OTHER -> "API error (HTTP " \o ToString(status) \o ")."

\* the detail of an HTTP status error: the body parsed as JSON, else its text
ErrorDetail(e) ==
    LET parsed == response_json(e.text)
    IN  IF parsed.ok THEN parsed.val ELSE PyStr(e.text)

\* the cascade with the generic transport branch tested before the timeout
HandleErrorRequestErrorFirst(e) ==
    IF IsInstance(e, "HTTPStatusError")
    THEN LET detail == ErrorDetail(e)
         IN  "Error: " \o StatusMessage(e.status) \o "\nDetails: "
             \o (IF detail.t = "dict" THEN json_dumps(detail) ELSE Format(detail))
    ELSE IF IsInstance(e, "RuntimeError") THEN "Error: " \o e.msg
    ELSE IF IsInstance(e, "RequestError") THEN "Error: Request failed: " \o e.msg
    ELSE IF IsInstance(e, "TimeoutException")
         THEN "Error: Request timed out. AnythingLLM may be busy or unreachable."
    ELSE "Error: " \o e.cls \o ": " \o e.msg

_handle_error(e) ==
    IF IsInstance(e, "HTTPStatusError")
    THEN LET detail == ErrorDetail(e)
         IN  "Error: " \o StatusMessage(e.status) \o "\nDetails: "
             \o (IF detail.t = "dict" THEN json_dumps(detail) ELSE Format(detail))
    ELSE IF IsInstance(e, "RuntimeError") THEN "Error: " \o e.msg
    ELSE IF IsInstance(e, "TimeoutException")
         THEN "Error: Request timed out. AnythingLLM may be busy or unreachable."
    ELSE IF IsInstance(e, "RequestError") THEN "Error: Request failed: " \o e.msg
    ELSE IF IsInstance(e, "ConnectError")
         THEN "Error: Cannot connect to AnythingLLM at " \o API_BASE_URL
              \o ". Is it running?"
    ELSE "Error: " \o e.cls \o ": " \o e.msg

\* str(data) in place of json.dumps
JsonResponseStr(data) == Format(data)

\* json.dumps(data, indent=2, ensure_ascii=False, default=str)
_json_response(data) == DumpsAt(data, TRUE, 0)

(***************************************************************************)
(* The Dispatcher, _api, in its two halves: up to the request it sends,    *)
(* and from the response it awaited.                                       *)
(***************************************************************************)

\* the request client.request(...) sends
Request(endpoint, method, body, key) ==
    [method |-> method,
     url |-> API_BASE_URL \o "/api/v1" \o endpoint,
     authorization |-> "Bearer " \o key,
     body |-> body]

\* _api up to the await: the credential check, then the request
ApiSend(endpoint, method, body, key) ==
    LET chk == _require_api_key(key)
    IN  IF chk.ok THEN Ok(Request(endpoint, method, body, key)) ELSE chk

\* httpx: response.is_success
IsSuccess(status) == status >= 200 /\ status <= 299

\* _api from the response on: raise_for_status, then JSON or text by the
\* content type.  (The bodies drawn fail to parse at their first character,
\* which is the message json gives.)
ApiReceive(resp) ==
    IF resp.kind = "fail" THEN Raised(Raise(resp.cls, resp.msg))
    ELSE IF ~IsSuccess(resp.status) THEN Raised(HTTPStatusError(resp.status, resp.text))
    ELSE IF Contains(resp.ctype, "application/json")
         THEN LET parsed == response_json(resp.text)
              IN  IF parsed.ok THEN Ok(parsed.val)
                  ELSE Raised(Raise("JSONDecodeError",
                           "Expecting value: line 1 column 1 (char 0)"))
         ELSE Ok(PyStr(resp.text))

(***************************************************************************)
(* Tool functions.  Plan(call) is a tool's body up to its await: an early  *)
(* return, a validation error raised, or the one Dispatcher call it makes. *)
(* Finish(call, payload) is what it does with the Dispatcher's result.     *)
(***************************************************************************)

\* class ChatMode(str, Enum): a member and its .value
ChatMode(name) == [t |-> "ChatMode", name |-> name]

EnumValue(m) == IF m.name = "CHAT" THEN "chat" ELSE "query"

\* Python truthiness of an optional str, list or enum member
Truthy(v) ==
    CASE v.t = "none" -> FALSE
      [] v.t = "str"  -> v.v # ""
      [] v.t = "list" -> Len(v.v) > 0
      [] OTHER -> TRUE

Return(out) == [k |-> "return", out |-> out]

Raises(e) == [k |-> "raise", exc |-> e]

Api(endpoint, method, body) ==
    [k |-> "api", endpoint |-> endpoint, method |-> method, body |-> body]

\* the first range check that fails, of `checks` (<<name, value, min, max>>,
\* a None value being skipped), or Ok
RECURSIVE FirstFailure(_, _)
FirstFailure(checks, i) ==
    IF i > Len(checks) THEN Ok(None)
    ELSE LET c == checks[i]
             r == IF c[2].t = "none" THEN Ok(None)
                  ELSE _validate_range(c[1], c[2], c[3], c[4])
         IN  IF r.ok THEN FirstFailure(checks, i + 1) ELSE r

\* {k: v for k, v in pairs if v}: a zero is dropped with the None
DropFalsy(pairs) ==
    SelectSeq(pairs, LAMBDA pr : pr[2].t # "none" /\ ~(IsNum(pr[2]) /\ pr[2].tenths = 0))

\* {k: v for k, v in pairs if v is not None}
RECURSIVE DropNone(_)
DropNone(pairs) ==
    IF Len(pairs) = 0 THEN <<>>
    ELSE IF Head(pairs)[2].t = "none" THEN DropNone(Tail(pairs))
    ELSE <<Head(pairs)>> \o DropNone(Tail(pairs))

update_workspace(c) ==
    LET chk == FirstFailure(
                 << <<"openAiTemp", c.openAiTemp, PyFloat(0), PyFloat(10)>>,
                    <<"openAiHistory", c.openAiHistory, PyInt(0), PyInt(100)>>,
                    <<"similarityThreshold", c.similarityThreshold, PyFloat(0),
                      PyFloat(10)>>,
                    <<"topN", c.topN, PyInt(1), PyInt(20)>> >>, 1)
        all_params ==
            << <<"name", c.name>>,
               <<"openAiTemp", c.openAiTemp>>,
               <<"openAiHistory", c.openAiHistory>>,
               <<"openAiPrompt", c.openAiPrompt>>,
               <<"similarityThreshold", c.similarityThreshold>>,
               <<"topN", c.topN>>,
               <<"chatMode", IF Truthy(c.chatMode) THEN PyStr(EnumValue(c.chatMode))
                             ELSE None>> >>
        updates == DropNone(all_params)
    IN  IF ~chk.ok THEN Raises(chk.exc)
        ELSE IF Len(updates) = 0 THEN Return("Error: No updates provided.")
        ELSE Api("/workspace/" \o c.slug \o "/update", "POST", PyDict(updates))

search_workspace(c) ==
    LET chk1 == _validate_range("top_n", c.top_n, PyInt(1), PyInt(20))
        chk2 == IF c.score_threshold.t = "none" THEN Ok(None)
                ELSE _validate_range("score_threshold", c.score_threshold,
                                     PyFloat(0), PyFloat(10))
        body == << <<"query", PyStr(c.query)>>, <<"topN", c.top_n>> >>
                \o (IF c.score_threshold.t = "none" THEN <<>>
                    ELSE << <<"scoreThreshold", c.score_threshold>> >>)
    IN  IF ~chk1.ok THEN Raises(chk1.exc)
        ELSE IF ~chk2.ok THEN Raises(chk2.exc)
        ELSE Api("/workspace/" \o c.slug \o "/vector-search", "POST", PyDict(body))

upload_link(c) ==
    IF ~(StartsWith(c.link, "http://") \/ StartsWith(c.link, "https://"))
    THEN Return("Error: Link must start with http:// or https://")
    ELSE Api("/document/upload-link", "POST", PyDict(<< <<"link", PyStr(c.link)>> >>))

update_embeddings(c) ==
    LET body == (IF Truthy(c.adds) THEN << <<"adds", c.adds>> >> ELSE <<>>)
                \o (IF Truthy(c.deletes) THEN << <<"deletes", c.deletes>> >> ELSE <<>>)
    IN  IF Len(body) = 0 THEN Return("Error: Provide at least 'adds' or 'deletes'.")
        ELSE Api("/workspace/" \o c.slug \o "/update-embeddings", "POST", PyDict(body))

create_thread(c) ==
    Api("/workspace/" \o c.slug \o "/thread/new", "POST",
        PyDict(IF Truthy(c.name) THEN << <<"name", c.name>> >> ELSE <<>>))

ChatBody(c) ==
    PyDict(<< <<"message", PyStr(c.message)>>, <<"mode", PyStr(EnumValue(c.mode))>> >>)

Plan(c) ==
    CASE c.tool = "check_auth" -> Api("/auth", "GET", None)
      [] c.tool = "list_workspaces" -> Api("/workspaces", "GET", None)
      [] c.tool = "get_workspace" -> Api("/workspace/" \o c.slug, "GET", None)
      [] c.tool = "create_workspace" ->
            Api("/workspace/new", "POST", PyDict(<< <<"name", PyStr(c.name)>> >>))
      [] c.tool = "update_workspace" -> update_workspace(c)
      [] c.tool = "delete_workspace" -> Api("/workspace/" \o c.slug, "DELETE", None)
      [] c.tool = "chat_with_workspace" ->
            Api("/workspace/" \o c.slug \o "/chat", "POST", ChatBody(c))
      [] c.tool = "get_chat_history" ->
            Api("/workspace/" \o c.slug \o "/chats", "GET", None)
      [] c.tool = "create_thread" -> create_thread(c)
      [] c.tool = "delete_thread" ->
            Api("/workspace/" \o c.slug \o "/thread/" \o c.thread_slug, "DELETE", None)
      [] c.tool = "chat_in_thread" ->
            Api("/workspace/" \o c.slug \o "/thread/" \o c.thread_slug \o "/chat",
                "POST", ChatBody(c))
      [] c.tool = "get_thread_chats" ->
            Api("/workspace/" \o c.slug \o "/thread/" \o c.thread_slug \o "/chats",
                "GET", None)
      [] c.tool = "list_documents" -> Api("/documents", "GET", None)
      [] c.tool = "get_accepted_file_types" ->
            Api("/document/accepted-file-types", "GET", None)
      [] c.tool = "upload_link" -> upload_link(c)
      [] c.tool = "upload_raw_text" ->
            Api("/document/raw-text", "POST",
                PyDict(<< <<"textContent", PyStr(c.text_content)>>,
                          <<"metadata", PyDict(<< <<"title", PyStr(c.title)>> >>)>> >>))
      [] c.tool = "update_embeddings" -> update_embeddings(c)
      [] c.tool = "search_workspace" -> search_workspace(c)
      [] c.tool = "get_system_settings" -> Api("/system", "GET", None)
      [] c.tool = "get_vector_count" -> Api("/system/vector-count", "GET", None)
      [] c.tool = "export_chats" -> Api("/system/export-chats", "GET", None)
      [] c.tool = "list_embeds" -> Api("/embed", "GET", None)
      [] c.tool = "list_models" -> Api("/openai/models", "GET", None)

\* ws.get(...) on an entry that is no dict
NoGet(v) ==
    Raised(Raise("AttributeError",
        "'" \o TypeName(v) \o "' object has no attribute 'get'"))

\* len(v)
PyLen(v) ==
    IF v.t \in {"list", "dict", "str"} THEN Ok(Len(v.v))
    ELSE Raised(Raise("TypeError",
             "object of type '" \o TypeName(v) \o "' has no len()"))

\* the entry appended as it came: summary.append(ws)
SummarizeWhole(ws) == IF ws.t # "dict" THEN NoGet(ws) ELSE Ok(ws)

\* the entry list_workspaces appends for ws
Summarize(ws) ==
    IF ws.t # "dict" THEN NoGet(ws)
    ELSE LET n == PyLen(DictGet(ws, "threads", PyList(<<>>)))
         IN  IF ~n.ok THEN n
             ELSE Ok(PyDict(<< <<"name", DictGet(ws, "name", None)>>,
                               <<"slug", DictGet(ws, "slug", None)>>,
                               <<"chatMode", DictGet(ws, "chatMode", PyStr("chat"))>>,
                               <<"vectorSearchMode",
                                 DictGet(ws, "vectorSearchMode", None)>>,
                               <<"threads", PyInt(n.val)>>,
                               <<"createdAt", DictGet(ws, "createdAt", None)>> >>))

\* the loop of list_workspaces from entry i on, `acc` the summary so far
RECURSIVE SummarizeFrom(_, _, _)
SummarizeFrom(items, i, acc) ==
    IF i > Len(items) THEN Ok(acc)
    ELSE LET one == Summarize(items[i])
         IN  IF one.ok THEN SummarizeFrom(items, i + 1, Append(acc, one.val)) ELSE one

\* what `for ws in workspaces` iterates over
IterItems(v) ==
    CASE v.t = "list" -> Ok(v.v)
      [] v.t = "dict" -> Ok([i \in 1..Len(v.v) |-> PyStr(v.v[i][1])])
      [] v.t = "str"  -> Ok([i \in 1..Len(v.v) |-> PyStr(CharAt(v.v, i))])
      [] OTHER -> Raised(Raise("TypeError",
                      "'" \o TypeName(v) \o "' object is not iterable"))

list_workspaces(payload) ==
    LET result == _as_dict(payload, "/workspaces")
        items == IF result.ok
                 THEN IterItems(DictGet(result.val, "workspaces", PyList(<<>>)))
                 ELSE result
        summary == IF items.ok THEN SummarizeFrom(items.val, 1, <<>>) ELSE items
    IN  IF ~summary.ok THEN summary
        ELSE Ok(_json_response(PyDict(<< <<"total", PyInt(Len(summary.val))>>,
                                         <<"workspaces", PyList(summary.val)>> >>)))

safe_keys ==
    <<"LLMProvider", "LLMModel", "VectorDB", "EmbeddingEngine",
      "EmbeddingModelPref", "EmbeddingModelMaxChunkLength",
      "MultiUserMode", "DisableTelemetry", "WhisperProvider",
      "TextToSpeechProvider", "OllamaLLMBasePath", "OllamaLLMModelPref">>

\* the settings as they came: filtered = dict(settings)
FilterNothing(settings, keys, i) == settings.v

\* {k: settings.get(k) for k in keys[i:] if settings.get(k) is not None}
RECURSIVE FilterKeys(_, _, _)
FilterKeys(settings, keys, i) ==
    IF i > Len(keys) THEN <<>>
    ELSE LET val == DictGet(settings, keys[i], None)
         IN  (IF val.t = "none" THEN <<>> ELSE << <<keys[i], val>> >>)
             \o FilterKeys(settings, keys, i + 1)

get_system_settings(payload) ==
    LET result == _as_dict(payload, "/system")
        settings == IF result.ok THEN DictGet(result.val, "settings", PyDict(<<>>))
                    ELSE None
    IN  IF ~result.ok THEN result
        ELSE IF settings.t # "dict" THEN NoGet(settings)
        ELSE Ok(_json_response(PyDict(<< <<"settings",
                    PyDict(FilterKeys(settings, safe_keys, 1))>> >>)))

\* a tool's body after its await returned `payload`
Finish(c, payload) ==
    CASE c.tool = "list_workspaces" -> list_workspaces(payload)
      [] c.tool = "get_system_settings" -> get_system_settings(payload)
      [] c.tool = "delete_workspace" ->
            Ok("Workspace '" \o c.slug \o "' deleted successfully.")
      [] c.tool = "delete_thread" ->
            Ok("Thread '" \o c.thread_slug \o "' deleted from workspace '"
               \o c.slug \o "'.")
      [] OTHER -> Ok(_json_response(payload))

(***************************************************************************)
(* Inputs: the credential values, the tool calls a client makes and the    *)
(* responses the upstream service (or the transport) gives.                *)
(***************************************************************************)

\* the tools registered with readOnlyHint: True
ReadOnlyTools ==
    {"check_auth", "list_workspaces", "get_workspace", "get_chat_history",
     "get_thread_chats", "list_documents", "get_accepted_file_types",
     "search_workspace", "get_system_settings", "get_vector_count",
     "export_chats", "list_embeds", "list_models"}

\* ANYTHINGLLM_API_KEY: unset, blank, set
Keys == {"", " ", "test-token"}

NoArgTools ==
    {"check_auth", "list_workspaces", "list_documents", "get_accepted_file_types",
     "get_system_settings", "get_vector_count", "export_chats", "list_embeds",
     "list_models"}

SlugTools == {"get_workspace", "delete_workspace", "get_chat_history"}

ThreadTools == {"delete_thread", "get_thread_chats"}

UpdateCalls ==
    [tool : {"update_workspace"}, slug : {"demo"},
     name : {None, PyStr("n")},
     openAiTemp : {None, PyFloat(0 - 1), PyFloat(5), PyFloat(11)},
     openAiHistory : {None, PyInt(0 - 1), PyInt(100), PyInt(101)},
     openAiPrompt : {None, PyStr("p")},
     similarityThreshold : {None, PyFloat(0), PyFloat(15)},
     topN : {None, PyInt(0), PyInt(1), PyInt(21)},
     chatMode : {None, ChatMode("QUERY")}]

SearchCalls ==
    [tool : {"search_workspace"}, slug : {"demo"}, query : {"query"},
     top_n : {PyInt(0), PyInt(1), PyInt(20), PyInt(21)},
     score_threshold : {None, PyFloat(0 - 1), PyFloat(10), PyFloat(11)}]

Calls ==
    [tool : NoArgTools]
    \cup [tool : SlugTools, slug : {"demo"}]
    \cup [tool : ThreadTools, slug : {"demo"}, thread_slug : {"t1"}]
    \cup [tool : {"create_workspace"}, name : {"n"}]
    \cup [tool : {"chat_with_workspace"}, slug : {"demo"}, message : {"hi"},
          mode : {ChatMode("CHAT")}]
    \cup [tool : {"chat_in_thread"}, slug : {"demo"}, thread_slug : {"t1"},
          message : {"hi"}, mode : {ChatMode("QUERY")}]
    \cup [tool : {"create_thread"}, slug : {"demo"},
          name : {None, PyStr(""), PyStr("n")}]
    \cup [tool : {"upload_link"}, link : {"https://a.b", "ftp://a.b"}]
    \cup [tool : {"upload_raw_text"}, text_content : {"text"}, title : {"T"}]
    \cup [tool : {"update_embeddings"}, slug : {"demo"},
          adds : {None, PyList(<<PyStr("d1")>>)},
          deletes : {PyList(<<>>), PyList(<<PyStr("d2")>>)}]
    \cup SearchCalls
    \cup UpdateCalls

Responses ==
    [kind : {"http"}, status : {200}, ctype : {JsonType, "text/plain"},
     text : SuccessBodies]
    \cup [kind : {"http"}, status : {204}, ctype : {""}, text : {""}]
    \cup [kind : {"http"}, status : {302, 400, 401, 403, 404, 429, 500, 503},
          ctype : {JsonType}, text : ErrorBodies]
    \cup [kind : {"fail"}, cls : {"ReadTimeout", "ConnectTimeout"}, msg : {""}]
    \cup [kind : {"fail"}, cls : {"ConnectError"},
          msg : {"All connection attempts failed"}]
    \cup [kind : {"fail"}, cls : {"ReadError"}, msg : {"Connection reset"}]

(***************************************************************************)
(* State                                                                   *)
(***************************************************************************)

VARIABLES
    API_KEY,    \* the module global: the configured credential
    inv,        \* per slot of the hosting runtime: the tool invocation in it
    log         \* the invocations completed so far (kept by SpecSeq only)

vars == <<API_KEY, inv, log>>

\* the invocations the runtime can hold; Spec and SpecSeq run them one at a
\* time, in slot "a"
Slots == {"a", "b"}

NoCall == [tool |-> ""]

Idle ==
    [pc |-> "idle", call |-> NoCall, dispatched |-> FALSE, sent |-> 0,
     request |-> None, response |-> None, exc |-> "", out |-> ""]

Init ==
    /\ API_KEY \in Keys
    /\ inv = [p \in Slots |-> Idle]
    /\ log = <<>>

\* the tool function returns `out` (having caught an exception of class exc)
Returned(st, exc, out) == [st EXCEPT !.pc = "done", !.exc = exc, !.out = out]

\* an exception of class exc leaves the tool function, to the hosting runtime
Thrown(st, exc) == [st EXCEPT !.pc = "thrown", !.exc = exc]

\* a handler for httpx's errors only: except httpx.HTTPError as e
CatchesHttpOnly(e) == IsInstance(e, "HTTPError")

\* every tool's handler: except Exception as e
Catches(e) == IsInstance(e, "Exception")

\* the end of a tool's try block: `result` returned, or raised and handled
Settle(st, result) ==
    IF result.ok THEN Returned(st, "", result.val)
    ELSE IF Catches(result.exc)
         THEN Returned(st, result.exc.cls, _handle_error(result.exc))
         ELSE Thrown(st, result.exc.cls)

\* Invoke with the credential check's result cached: the credential the
\* first logged call saw decides every later check
InvokeCachedCheck(p, c) ==
    /\ inv[p].pc = "idle"
    /\ LET plan == Plan(c)
           st == [inv[p] EXCEPT !.call = c]
           key == IF Len(log) > 0 THEN log[1].key ELSE API_KEY
       IN  inv' = [inv EXCEPT ![p] =
             CASE plan.k = "return" -> Settle(st, Ok(plan.out))
               [] plan.k = "raise" -> Settle(st, Raised(plan.exc))
               [] plan.k = "api" ->
                    LET snd == ApiSend(plan.endpoint, plan.method, plan.body, key)
                    IN  IF snd.ok
                        THEN [st EXCEPT !.pc = "awaiting", !.dispatched = TRUE,
                                        !.sent = @ + 1, !.request = snd.val]
                        ELSE Settle([st EXCEPT !.dispatched = TRUE], snd)]
    /\ UNCHANGED <<API_KEY, log>>

\* a client invokes a tool: its body runs up to the await of the request
\* (asyncio runs it without interruption), or to its return
Invoke(p, c) ==
    /\ inv[p].pc = "idle"
    /\ LET plan == Plan(c)
           st == [inv[p] EXCEPT !.call = c]
       IN  inv' = [inv EXCEPT ![p] =
             CASE plan.k = "return" -> Settle(st, Ok(plan.out))
               [] plan.k = "raise" -> Settle(st, Raised(plan.exc))
               [] plan.k = "api" ->
                    LET snd == ApiSend(plan.endpoint, plan.method, plan.body, API_KEY)
                    IN  IF snd.ok
                        THEN [st EXCEPT !.pc = "awaiting", !.dispatched = TRUE,
                                        !.sent = @ + 1, !.request = snd.val]
                        ELSE Settle([st EXCEPT !.dispatched = TRUE], snd)]
    /\ UNCHANGED <<API_KEY, log>>

\* Respond with one retry: a failed first attempt is sent again
RespondRetry(p, r) ==
    /\ inv[p].pc = "awaiting"
    /\ LET rcv == ApiReceive(r)
           fin == IF rcv.ok THEN Finish(inv[p].call, rcv.val) ELSE rcv
       IN  inv' = [inv EXCEPT ![p] =
             IF ~rcv.ok /\ inv[p].sent < 2
             THEN [inv[p] EXCEPT !.sent = @ + 1]
             ELSE Settle([inv[p] EXCEPT !.response = r], fin)]
    /\ UNCHANGED <<API_KEY, log>>

\* Respond with a count of the requests answered so far, kept by the module,
\* put in front of what the tool returns
RespondNumbered(p, r) ==
    /\ inv[p].pc = "awaiting"
    /\ LET rcv == ApiReceive(r)
           fin == IF rcv.ok THEN Finish(inv[p].call, rcv.val) ELSE rcv
           done == Settle([inv[p] EXCEPT !.response = r], fin)
           count == Cardinality({q \in Slots : inv[q].response # None})
       IN  inv' = [inv EXCEPT ![p] =
                      [done EXCEPT !.out = "#" \o ToString(count) \o " " \o @]]
    /\ UNCHANGED <<API_KEY, log>>

\* Respond with the response held in one place for all invocations: an
\* invocation resumes with the response another one received last
RespondShared(p, r) ==
    /\ inv[p].pc = "awaiting"
    /\ LET others == {q \in Slots \ {p} : inv[q].response # None}
           got == IF others = {} THEN r ELSE inv[CHOOSE q \in others : TRUE].response
           rcv == ApiReceive(got)
           fin == IF rcv.ok THEN Finish(inv[p].call, rcv.val) ELSE rcv
       IN  inv' = [inv EXCEPT ![p] = Settle([inv[p] EXCEPT !.response = r], fin)]
    /\ UNCHANGED <<API_KEY, log>>

\* the awaited request ends, with a response or a transport failure: the
\* rest of _api and of the tool function run
Respond(p, r) ==
    /\ inv[p].pc = "awaiting"
    /\ LET rcv == ApiReceive(r)
           fin == IF rcv.ok THEN Finish(inv[p].call, rcv.val) ELSE rcv
       IN  inv' = [inv EXCEPT ![p] = Settle([inv[p] EXCEPT !.response = r], fin)]
    /\ UNCHANGED <<API_KEY, log>>

\* what the log keeps of an invocation
Summary(st, key) ==
    [key |-> key, dispatched |-> st.dispatched, sent |-> st.sent, out |-> st.out]

\* the caller takes the returned string; the slot is free again
Complete(p, keep) ==
    /\ inv[p].pc \in {"done", "thrown"}
    /\ inv' = [inv EXCEPT ![p] = Idle]
    /\ log' = IF keep THEN Append(log, Summary(inv[p], API_KEY)) ELSE log
    /\ UNCHANGED API_KEY

\* the tests assign server.API_KEY between the calls they make
SetApiKey(k) ==
    /\ \A p \in Slots : inv[p].pc = "idle"
    /\ k # API_KEY
    /\ API_KEY' = k
    /\ UNCHANGED <<inv, log>>

\* one invocation at a time, over every tool, argument and response
Next ==
    \/ \E c \in Calls : Invoke("a", c)
    \/ \E r \in Responses : Respond("a", r)
    \/ Complete("a", FALSE)
    \/ \E k \in Keys : SetApiKey(k)

Spec == Init /\ [][Next]_vars

(***************************************************************************)
(* Sequences of invocations, each logged, with the credential changing     *)
(* between them: a few tools and responses, MaxCalls invocations.          *)
(***************************************************************************)

MaxCalls == 3

SeqCalls ==
    [tool : {"check_auth", "get_system_settings"}]
    \cup [tool : {"delete_workspace"}, slug : {"demo"}]
    \cup [tool : {"search_workspace"}, slug : {"demo"}, query : {"query"},
          top_n : {PyInt(0), PyInt(4)}, score_threshold : {None}]

SeqResponses ==
    [kind : {"http"}, status : {200}, ctype : {JsonType}, text : {"{\"ok\": true}"}]
    \cup [kind : {"http"}, status : {401}, ctype : {JsonType},
          text : {"{\"error\": \"bad\"}"}]
    \cup [kind : {"fail"}, cls : {"ReadTimeout"}, msg : {""}]

NextSeq ==
    \/ /\ Len(log) < MaxCalls
       /\ \E c \in SeqCalls : Invoke("a", c)
    \/ \E r \in SeqResponses : Respond("a", r)
    \/ Complete("a", TRUE)
    \/ \E k \in Keys : SetApiKey(k)

SpecSeq == Init /\ [][NextSeq]_vars

(***************************************************************************)
(* Invocations dispatched concurrently: the runtime starts a second one    *)
(* while the first awaits its response, and the responses come in any      *)
(* order.  A few tools and responses.                                      *)
(***************************************************************************)

ConcCalls ==
    SeqCalls
    \cup [tool : {"list_workspaces"}]
    \cup [tool : {"get_workspace"}, slug : {"demo"}]

ConcResponses ==
    SeqResponses
    \cup [kind : {"http"}, status : {200}, ctype : {JsonType, "text/plain"},
          text : {"[1, \"a\\\"b\"]"}]
    \cup [kind : {"fail"}, cls : {"ConnectError"},
          msg : {"All connection attempts failed"}]

NextConc ==
    \/ \E p \in Slots : \E c \in ConcCalls : Invoke(p, c)
    \/ \E p \in Slots : \E r \in ConcResponses : Respond(p, r)
    \/ \E p \in Slots : Complete(p, FALSE)
    \/ \E k \in Keys : SetApiKey(k)

SpecConc == Init /\ [][NextConc]_vars

(***************************************************************************)
(* Properties                                                              *)
(***************************************************************************)

\* the invocation in slot p has a response (or a transport failure) in hand
HasResponse(p) == inv[p].response # None

ConfigErrorText == "ANYTHINGLLM_API_KEY is not set"

\* the tools that check their arguments before they call the Dispatcher
LocalCheckTools ==
    {"search_workspace", "update_workspace", "upload_link", "update_embeddings"}

LowerChar(c) ==
    LET upper == "ABCDEFGHIJKLMNOPQRSTUVWXYZ"
        lower == "abcdefghijklmnopqrstuvwxyz"
    IN  IF \E i \in 1..26 : CharAt(upper, i) = c
        THEN CharAt(lower, CHOOSE i \in 1..26 : CharAt(upper, i) = c)
        ELSE c

RECURSIVE LowerRange(_, _, _)
LowerRange(s, lo, hi) ==
    IF lo > hi THEN ""
    ELSE IF lo = hi THEN LowerChar(CharAt(s, lo))
    ELSE LowerRange(s, lo, (lo + hi) \div 2) \o LowerRange(s, (lo + hi) \div 2 + 1, hi)

\* s in lower case
Lower(s) == LowerRange(s, 1, Len(s))

\* C1 (as stated): whatever the tool and its arguments, with an empty
\* credential no request is issued and the returned string contains the
\* configuration-error message.
C1_EveryInvocationReportsConfigError ==
    \A p \in Slots :
        (inv[p].pc = "done" /\ API_KEY = "")
            => (inv[p].sent = 0 /\ Contains(inv[p].out, ConfigErrorText))

\* C1 (amended): with an empty (or blank) credential no invocation issues a
\* request; an invocation that reaches the Dispatcher returns the
\* configuration-error message, and one that does not is an invocation of a
\* tool that checks its arguments first, which returns its own error.
C1_EmptyCredentialNoRequest ==
    \A p \in Slots :
        (inv[p].pc # "idle" /\ API_KEY \in {"", " "})
            => /\ inv[p].pc = "done"
               /\ inv[p].sent = 0
               /\ inv[p].request = None
               /\ StartsWith(inv[p].out, "Error: ")
               /\ inv[p].dispatched => Contains(inv[p].out, ConfigErrorText)
               /\ ~inv[p].dispatched => inv[p].call.tool \in LocalCheckTools

C1_Witness ==
    \E p \in Slots :
        /\ inv[p].pc = "done"
        /\ API_KEY = ""
        /\ inv[p].call.tool = "search_workspace"
        /\ inv[p].dispatched
        /\ inv[p].sent = 0
        /\ Contains(inv[p].out, ConfigErrorText)

\* the declared ranges of a call's numeric arguments, in tenths, in the order
\* the tool checks them, each with the message that names it and its bounds
DeclaredRanges(c) ==
    IF c.tool = "search_workspace"
    THEN << <<c.top_n, 10, 200, "top_n must be between 1 and 20.">>,
            <<c.score_threshold, 0, 10,
              "score_threshold must be between 0.0 and 1.0.">> >>
    ELSE IF c.tool = "update_workspace"
    THEN << <<c.openAiTemp, 0, 10, "openAiTemp must be between 0.0 and 1.0.">>,
            <<c.openAiHistory, 0, 1000, "openAiHistory must be between 0 and 100.">>,
            <<c.similarityThreshold, 0, 10,
              "similarityThreshold must be between 0.0 and 1.0.">>,
            <<c.topN, 10, 200, "topN must be between 1 and 20.">> >>
    ELSE <<>>

\* the argument of a declared range is given and strictly outside it
Outside(r) == r[1].t # "none" /\ (r[1].tenths < r[2] \/ r[1].tenths > r[3])

\* C2 (as stated): every argument outside its declared range is named, with
\* its bounds, by the validation error returned, and no request is issued.
C2_EveryOutsideArgumentNamed ==
    \A p \in Slots :
        inv[p].pc = "done" =>
            LET rs == DeclaredRanges(inv[p].call)
            IN  \A i \in DOMAIN rs :
                    Outside(rs[i])
                        => /\ inv[p].sent = 0
                           /\ StartsWith(inv[p].out, "Error: ")
                           /\ Contains(inv[p].out, rs[i][4])

\* C2 (amended): an invocation with an argument outside its declared range
\* returns a validation error naming the first such argument in the tool's
\* order of checks, with its bounds, and issues no request.
C2_FirstOutsideArgumentNamed ==
    \A p \in Slots :
        inv[p].pc # "idle" =>
            LET rs == DeclaredRanges(inv[p].call)
            IN  \A i \in DOMAIN rs :
                    (Outside(rs[i]) /\ \A j \in 1..(i - 1) : ~Outside(rs[j]))
                        => /\ inv[p].pc = "done"
                           /\ inv[p].sent = 0
                           /\ ~inv[p].dispatched
                           /\ StartsWith(inv[p].out, "Error: ")
                           /\ Contains(inv[p].out, rs[i][4])

C2_Witness ==
    \E p \in Slots :
        /\ inv[p].pc = "done"
        /\ API_KEY = "test-token"
        /\ inv[p].call.tool = "update_workspace"
        /\ inv[p].call.openAiTemp = PyFloat(5)
        /\ inv[p].call.openAiHistory = PyInt(101)
        /\ inv[p].sent = 0
        /\ Contains(inv[p].out, "openAiHistory must be between 0 and 100.")

\* C3: the output for an out-of-range argument is exactly "Error: " followed
\* by "<name> must be between <min> and <max>."; search_workspace with
\* top_n = 0 outputs "Error: top_n must be between 1 and 20.".
C3_ValidationErrorPassedThrough ==
    \A p \in Slots :
        inv[p].pc = "done" =>
            LET rs == DeclaredRanges(inv[p].call)
            IN  \A i \in DOMAIN rs :
                    (Outside(rs[i]) /\ \A j \in 1..(i - 1) : ~Outside(rs[j]))
                        => inv[p].out = "Error: " \o rs[i][4]

\* C4: a connection failure (httpx.ConnectError) is reported with the fixed
\* message naming the base URL, not as a generic transport failure.
C4_ConnectErrorNamesBaseUrl ==
    \A p \in Slots :
        (inv[p].pc = "done" /\ HasResponse(p) /\ inv[p].response.kind = "fail"
         /\ inv[p].response.cls = "ConnectError")
            => /\ inv[p].out = "Error: Cannot connect to AnythingLLM at "
                               \o "http://localhost:3001. Is it running?"
               /\ ~Contains(inv[p].out, "Request failed")

\* the fixed phrase of each status the Error Normalizer knows
StatusPhrase(status) ==
    CASE status = 401 -> "authentication failed"
      [] status = 403 -> "permission denied"
      [] status = 404 -> "resource not found"
      [] status = 429 -> "rate limit exceeded"
      [] status = 500 -> "internal server error"

\* C5: for an upstream response with status 401, 403, 404, 429 or 500 the
\* tool returns an error string containing the fixed phrase of that status.
C5_KnownStatusPhrase ==
    \A p \in Slots :
        (inv[p].pc # "awaiting" /\ HasResponse(p) /\ inv[p].response.kind = "http"
         /\ inv[p].response.status \in {401, 403, 404, 429, 500})
            => /\ inv[p].pc = "done"
               /\ StartsWith(inv[p].out, "Error: ")
               /\ Contains(Lower(inv[p].out), StatusPhrase(inv[p].response.status))

C5_Witness ==
    \E p \in Slots :
        /\ inv[p].pc = "done"
        /\ HasResponse(p)
        /\ inv[p].response.kind = "http"
        /\ inv[p].response.status = 429
        /\ inv[p].call.tool = "delete_workspace"
        /\ Contains(Lower(inv[p].out), "rate limit exceeded")

\* the invocation in slot p got a 2xx response and raised nothing
Succeeded(p) ==
    /\ inv[p].pc = "done"
    /\ HasResponse(p)
    /\ inv[p].response.kind = "http"
    /\ inv[p].response.status \in 200..299
    /\ inv[p].exc = ""

\* C6: no tool throws to its caller: whatever the failure, the invocation
\* ends by returning a string, and a string returned for a failure begins
\* with "Error: ".
C6_NoToolThrows ==
    \A p \in Slots :
        /\ inv[p].pc \in {"idle", "awaiting", "done"}
        /\ inv[p].pc = "done" => (Succeeded(p) \/ StartsWith(inv[p].out, "Error: "))
        /\ inv[p].exc # "" => (inv[p].pc = "done" /\ StartsWith(inv[p].out, "Error: "))

C6_Witness ==
    \E p \in Slots :
        /\ inv[p].pc = "done"
        /\ inv[p].call.tool = "list_workspaces"
        /\ inv[p].exc = "TypeError"
        /\ StartsWith(inv[p].out, "Error: TypeError: ")

\* the tools that return the Dispatcher's payload as it is
PassThroughTools ==
    {"check_auth", "get_workspace", "create_workspace", "update_workspace",
     "chat_with_workspace", "get_chat_history", "create_thread", "chat_in_thread",
     "get_thread_chats", "list_documents", "get_accepted_file_types", "upload_link",
     "upload_raw_text", "update_embeddings", "search_workspace", "get_vector_count",
     "export_chats", "list_embeds", "list_models"}

\* C7 (as stated): on a 2xx response a pass-through tool outputs valid JSON
\* matching the body when the content type contains application/json, and
\* the raw response text verbatim otherwise.
C7_TextVerbatim ==
    \A p \in Slots :
        (Succeeded(p) /\ inv[p].call.tool \in PassThroughTools)
            => IF Contains(inv[p].response.ctype, "application/json")
               THEN json_loads(inv[p].out) = json_loads(inv[p].response.text)
               ELSE inv[p].out = inv[p].response.text

\* C7 (amended): on a 2xx response a pass-through tool outputs valid JSON
\* matching the body when the content type contains application/json;
\* otherwise it outputs the raw response text as a JSON string literal
\* (quoted and escaped), which parses back to the raw text.
C7_TextAsJsonString ==
    \A p \in Slots :
        (Succeeded(p) /\ inv[p].call.tool \in PassThroughTools)
            => IF Contains(inv[p].response.ctype, "application/json")
               THEN /\ json_loads(inv[p].response.text).ok
                    /\ json_loads(inv[p].out) = json_loads(inv[p].response.text)
               ELSE /\ inv[p].out # inv[p].response.text
                    /\ StartsWith(inv[p].out, "\"")
                    /\ json_loads(inv[p].out)
                           = [ok |-> TRUE, val |-> PyStr(inv[p].response.text)]

C7_Witness ==
    \E p \in Slots :
        /\ Succeeded(p)
        /\ inv[p].call.tool = "get_workspace"
        /\ inv[p].response.ctype = "text/plain"
        /\ inv[p].response.text = "Workspace \"w\" deleted"
        /\ inv[p].out = "\"Workspace \\\"w\\\" deleted\""

\* the attempt that response r ends has failed
AttemptFailed(r) == r.kind = "fail" \/ r.status \notin 200..299

\* C8: a Dispatcher call that passes the credential check issues exactly one
\* request and an invocation at most one; a failed attempt is not repeated:
\* the invocation returns that failure.
C8_OneRequestNoRetry ==
    \A p \in Slots :
        /\ inv[p].sent <= 1
        /\ ~inv[p].dispatched => inv[p].sent = 0
        /\ (inv[p].dispatched /\ API_KEY \notin {"", " "}) => inv[p].sent = 1
        /\ inv[p].pc = "awaiting" => (inv[p].sent = 1 /\ inv[p].request # None)
        /\ (HasResponse(p) /\ AttemptFailed(inv[p].response))
               => /\ inv[p].pc = "done"
                  /\ inv[p].sent = 1
                  /\ inv[p].exc # ""
                  /\ StartsWith(inv[p].out, "Error: ")

C8_Witness ==
    \E p \in Slots :
        /\ inv[p].pc = "done"
        /\ inv[p].call.tool = "get_system_settings"
        /\ HasResponse(p)
        /\ inv[p].response.kind = "fail"
        /\ inv[p].response.cls = "ReadError"
        /\ inv[p].sent = 1
        /\ inv[p].out = "Error: Request failed: Connection reset"

\* the outcome the credential `key` calls for, of a Dispatcher call that
\* issued `sent` requests and returned `out`
CheckedAgainst(key, sent, out) ==
    IF key \in {"", " "}
    THEN sent = 0 /\ Contains(out, ConfigErrorText)
    ELSE sent = 1 /\ ~Contains(out, ConfigErrorText)

\* C9: the credential is checked on every Dispatcher call, against the
\* credential of that moment: a call made with it empty fails with the
\* configuration error and sends nothing, a call made with it set sends its
\* request, whatever the earlier calls did.
C9_CheckedOnEveryCall ==
    /\ \A i \in 1..Len(log) :
           log[i].dispatched => CheckedAgainst(log[i].key, log[i].sent, log[i].out)
    /\ \A p \in Slots :
           inv[p].dispatched
               => CheckedAgainst(API_KEY, inv[p].sent,
                                 IF inv[p].pc = "done" THEN inv[p].out ELSE "")

C9_Witness ==
    /\ Len(log) >= 3
    /\ log[1].dispatched /\ log[1].key = "" /\ log[1].sent = 0
    /\ log[2].dispatched /\ log[2].key = "test-token" /\ log[2].sent = 1
    /\ log[3].dispatched /\ log[3].key = " " /\ log[3].sent = 0
    /\ Contains(log[3].out, ConfigErrorText)

\* C10: a timeout raised by the Dispatcher is reported with the fixed timeout
\* message ("timed out"), never as a generic transport failure.
C10_TimeoutClassified ==
    \A p \in Slots :
        (inv[p].pc # "awaiting" /\ HasResponse(p) /\ inv[p].response.kind = "fail"
         /\ inv[p].response.cls \in {"ReadTimeout", "ConnectTimeout"})
            => /\ inv[p].pc = "done"
               /\ Contains(inv[p].out, "timed out")
               /\ ~Contains(inv[p].out, "Request failed")

C10_Witness ==
    \E p \in Slots :
        /\ inv[p].pc = "done"
        /\ HasResponse(p)
        /\ inv[p].response.kind = "fail"
        /\ inv[p].response.cls = "ConnectTimeout"
        /\ inv[p].out
               = "Error: Request timed out. AnythingLLM may be busy or unreachable."

\* the text that follows the first "\nDetails: " of an error string ("" when
\* there is none)
DetailsMarker == "\nDetails: "

HasDetails(out) == Contains(out, DetailsMarker)

DetailsOf(out) ==
    IF HasDetails(out)
    THEN LET at == Min({i \in 1..Len(out) : IsAt(out, i, DetailsMarker)})
         IN  SubSeq(out, at + Len(DetailsMarker), Len(out))
    ELSE ""

\* the invocation in slot p ended on a response with a non-2xx status
StatusFailed(p) ==
    /\ inv[p].pc # "awaiting"
    /\ HasResponse(p)
    /\ inv[p].response.kind = "http"
    /\ inv[p].response.status \notin 200..299

\* C11: for a status other than 401/403/404/429/500 the error string is the
\* generic "API error (HTTP <code>)" message with that code, and for every
\* HTTP status error the detail follows on a second line: as JSON when the
\* parsed body is an object or an array, as the raw body text otherwise.
C11_StructuredDetailAsJson ==
    \A p \in Slots :
        StatusFailed(p)
            => LET r == inv[p].response
                   parsed == json_loads(r.text)
               IN  /\ inv[p].pc = "done"
                   /\ r.status \notin {401, 403, 404, 429, 500}
                          => StartsWith(inv[p].out,
                                 "Error: API error (HTTP " \o ToString(r.status) \o ")")
                   /\ HasDetails(inv[p].out)
                   /\ IF parsed.ok /\ parsed.val.t \in {"dict", "list"}
                      THEN json_loads(DetailsOf(inv[p].out)) = parsed
                      ELSE DetailsOf(inv[p].out) = r.text

\* the keys of a dict
KeysOf(d) == {d.v[i][1] : i \in 1..Len(d.v)}

\* the fields of a workspace that list_workspaces promises
SummaryFields ==
    {"name", "slug", "chatMode", "vectorSearchMode", "threads", "createdAt"}

\* `body` parses to an object whose "workspaces" is a list of objects, the
\* "threads" of each, where present, a list
IsWorkspaceList(body) ==
    /\ body.ok
    /\ body.val.t = "dict"
    /\ HasKey(body.val.v, "workspaces")
    /\ LET list == DictGet(body.val, "workspaces", None)
       IN  /\ list.t = "list"
           /\ \A i \in 1..Len(list.v) :
                  /\ list.v[i].t = "dict"
                  /\ HasKey(list.v[i].v, "threads")
                         => DictGet(list.v[i], "threads", None).t = "list"

\* entry `e` of the output is the promised view of upstream entry `u`
IsSummaryOf(e, u) ==
    /\ e.t = "dict"
    /\ KeysOf(e) = SummaryFields
    /\ \A k \in {"name", "slug", "vectorSearchMode", "createdAt"} :
           DictGet(e, k, None) = DictGet(u, k, None)
    /\ DictGet(e, "chatMode", None) = DictGet(u, "chatMode", PyStr("chat"))
    /\ DictGet(e, "threads", None)
           = PyInt(Len(DictGet(u, "threads", PyList(<<>>)).v))

\* C12: on a 2xx JSON response carrying a workspace list, list_workspaces
\* outputs, in upstream order, one entry per workspace holding only its name,
\* slug, chat mode, vector-search mode, thread count and creation timestamp,
\* and a total equal to the number of entries; no other upstream field.
C12_WorkspacesReshaped ==
    \A p \in Slots :
        (/\ inv[p].pc # "awaiting"
         /\ HasResponse(p)
         /\ inv[p].call.tool = "list_workspaces"
         /\ inv[p].response.kind = "http"
         /\ inv[p].response.status \in 200..299
         /\ Contains(inv[p].response.ctype, "application/json")
         /\ IsWorkspaceList(json_loads(inv[p].response.text)))
            => LET up == DictGet(json_loads(inv[p].response.text).val,
                                 "workspaces", None).v
                   o == json_loads(inv[p].out)
               IN  /\ inv[p].pc = "done"
                   /\ inv[p].exc = ""
                   /\ o.ok
                   /\ o.val.t = "dict"
                   /\ KeysOf(o.val) = {"total", "workspaces"}
                   /\ DictGet(o.val, "total", None) = PyInt(Len(up))
                   /\ LET ws == DictGet(o.val, "workspaces", None)
                      IN  /\ ws.t = "list"
                          /\ Len(ws.v) = Len(up)
                          /\ \A i \in 1..Len(up) : IsSummaryOf(ws.v[i], up[i])

C12_Witness ==
    \E p \in Slots :
        /\ Succeeded(p)
        /\ inv[p].call.tool = "list_workspaces"
        /\ IsWorkspaceList(json_loads(inv[p].response.text))
        /\ Contains(inv[p].response.text, "openAiPrompt")
        /\ LET o == json_loads(inv[p].out)
           IN  /\ o.ok
               /\ DictGet(o.val, "total", None) = PyInt(2)
               /\ LET ws == DictGet(o.val, "workspaces", None).v
                  IN  /\ DictGet(ws[1], "name", None) = PyStr("A")
                      /\ DictGet(ws[1], "threads", None) = PyInt(2)
                      /\ DictGet(ws[2], "name", None) = PyStr("B")
                      /\ DictGet(ws[2], "threads", None) = PyInt(0)
                      /\ DictGet(ws[2], "chatMode", None) = PyStr("chat")

\* the allow-list as a set
SafeKeySet == {safe_keys[i] : i \in 1..Len(safe_keys)}

\* C13: get_system_settings outputs only allow-listed keys: every key of the
\* output settings is one of the 12 keys of the allow-list and carries the
\* upstream value, and no upstream key outside the allow-list (nor its
\* value) appears in the output.
C13_OnlyAllowListedSettings ==
    \A p \in Slots :
        (Succeeded(p) /\ inv[p].call.tool = "get_system_settings")
            => LET up == DictGet(json_loads(inv[p].response.text).val,
                                 "settings", PyDict(<<>>))
                   o == json_loads(inv[p].out)
               IN  /\ Cardinality(SafeKeySet) = 12
                   /\ o.ok
                   /\ o.val.t = "dict"
                   /\ KeysOf(o.val) = {"settings"}
                   /\ LET shown == DictGet(o.val, "settings", None)
                      IN  /\ shown.t = "dict"
                          /\ \A k \in KeysOf(shown) :
                                 /\ k \in SafeKeySet
                                 /\ HasKey(up.v, k)
                                 /\ DictGet(shown, k, None) = DictGet(up, k, None)
                          /\ \A k \in KeysOf(up) \ SafeKeySet :
                                 /\ k \notin KeysOf(shown)
                                 /\ ~Contains(inv[p].out, k)
                                 /\ DictGet(up, k, None).t = "str"
                                        => ~Contains(inv[p].out, DictGet(up, k, None).v)

C13_Witness ==
    \E p \in Slots :
        /\ Succeeded(p)
        /\ inv[p].call.tool = "get_system_settings"
        /\ Contains(inv[p].response.text, "\"OpenAiKey\": \"sk-1\"")
        /\ Contains(inv[p].out, "\"LLMProvider\": \"openai\"")
        /\ Contains(inv[p].out, "\"MultiUserMode\": false")
        /\ ~Contains(inv[p].out, "sk-1")

\* the invocation of call c run on its own with credential `key`, from its
\* start to the response r it is given (None: none yet)
RunAlone(c, key, r) ==
    LET plan == Plan(c)
        st == [Idle EXCEPT !.call = c]
        snd == ApiSend(plan.endpoint, plan.method, plan.body, key)
        rcv == ApiReceive(r)
    IN  IF plan.k = "return" THEN Settle(st, Ok(plan.out))
        ELSE IF plan.k = "raise" THEN Settle(st, Raised(plan.exc))
        ELSE IF ~snd.ok THEN Settle([st EXCEPT !.dispatched = TRUE], snd)
        ELSE LET sent == [st EXCEPT !.pc = "awaiting", !.dispatched = TRUE,
                                    !.sent = 1, !.request = snd.val]
             IN  IF r = None THEN sent
                 ELSE Settle([sent EXCEPT !.response = r],
                             IF rcv.ok THEN Finish(c, rcv.val) ELSE rcv)

\* C14: concurrent invocations are independent: in every interleaving, the
\* request each invocation sends and the string it returns are those it
\* would send and return running alone on the same response.
C14_ConcurrentAsAlone ==
    \A p \in Slots :
        inv[p].pc # "idle"
            => LET alone == RunAlone(inv[p].call, API_KEY, inv[p].response)
               IN  /\ inv[p].request = alone.request
                   /\ inv[p].pc = alone.pc
                   /\ inv[p].out = alone.out
                   /\ inv[p].sent = alone.sent

C14_Witness ==
    /\ inv["a"].pc = "done"
    /\ inv["a"].call.tool = "check_auth"
    /\ inv["a"].response # None
    /\ inv["a"].response.kind = "http"
    /\ inv["a"].response.status = 401
    /\ StartsWith(inv["a"].out, "Error: Authentication failed.")
    /\ inv["b"].pc = "done"
    /\ inv["b"].call.tool = "get_system_settings"
    /\ inv["b"].response # None
    /\ inv["b"].response.kind = "http"
    /\ inv["b"].response.status = 200
    /\ inv["b"].request.url = "http://localhost:3001/api/v1/system"
    /\ Contains(inv["b"].out, "\"settings\": {}")

OptionalFields ==
    {"name", "openAiTemp", "openAiHistory", "openAiPrompt", "similarityThreshold",
     "topN", "chatMode"}

\* those of them that call c supplies
Supplied(c) == {k \in OptionalFields : c[k] # None}

\* C16: the request body of update_workspace holds exactly the optional
\* fields that were supplied, chatMode as its string value, and no null;
\* with none supplied the tool returns "Error: No updates provided." and
\* sends no request, whatever the credential.
C16_UpdateBodyIsSuppliedFields ==
    \A p \in Slots :
        (inv[p].pc # "idle" /\ inv[p].call.tool = "update_workspace")
            => LET c == inv[p].call
               IN  /\ Supplied(c) = {}
                          => /\ inv[p].pc = "done"
                             /\ inv[p].out = "Error: No updates provided."
                             /\ inv[p].sent = 0
                             /\ inv[p].request = None
                   /\ inv[p].sent > 0 <=> inv[p].request # None
                   /\ inv[p].request # None
                          => /\ inv[p].request.body.t = "dict"
                             /\ KeysOf(inv[p].request.body) = Supplied(c)
                             /\ Len(inv[p].request.body.v) = Cardinality(Supplied(c))
                             /\ \A k \in Supplied(c) :
                                    /\ DictGet(inv[p].request.body, k, None) # None
                                    /\ DictGet(inv[p].request.body, k, None)
                                           = IF k = "chatMode"
                                             THEN PyStr(EnumValue(c.chatMode))
                                             ELSE c[k]

C16_Witness ==
    \E p \in Slots :
        /\ inv[p].pc = "awaiting"
        /\ inv[p].call.tool = "update_workspace"
        /\ Supplied(inv[p].call) = {"name", "similarityThreshold", "chatMode"}
        /\ inv[p].request.method = "POST"
        /\ inv[p].request.body
               = PyDict(<< <<"name", PyStr("n")>>,
                           <<"similarityThreshold", PyFloat(0)>>,
                           <<"chatMode", PyStr("query")>> >>)

\* the tools that reshape the payload, and the endpoint each one names
ReshapingEndpoint(tool) ==
    CASE tool = "list_workspaces" -> "/workspaces"
      [] tool = "get_system_settings" -> "/system"

\* the Dispatcher's payload for the 2xx response r is not a JSON object: a
\* JSON array or primitive, or the text of a body of another content type
PayloadNotObject(r) ==
    IF Contains(r.ctype, "application/json")
    THEN json_loads(r.text).ok /\ json_loads(r.text).val.t # "dict"
    ELSE TRUE

\* C17: a reshaping tool given a 2xx payload that is not a JSON object
\* returns the fallback error string, with the category name TypeError and
\* the detail naming the endpoint; it neither throws nor returns a partial
\* result.
C17_NonObjectPayloadIsTypeError ==
    \A p \in Slots :
        (/\ inv[p].pc # "awaiting"
         /\ HasResponse(p)
         /\ inv[p].call.tool \in {"list_workspaces", "get_system_settings"}
         /\ inv[p].response.kind = "http"
         /\ inv[p].response.status \in 200..299
         /\ PayloadNotObject(inv[p].response))
            => /\ inv[p].pc = "done"
               /\ inv[p].exc = "TypeError"
               /\ StartsWith(inv[p].out, "Error: TypeError: ")
               /\ Contains(inv[p].out,
                           "'" \o ReshapingEndpoint(inv[p].call.tool) \o "'")
               /\ ~Contains(inv[p].out, "\"total\"")
               /\ ~Contains(inv[p].out, "\"settings\"")

C17_Witness ==
    \E p \in Slots :
        /\ inv[p].pc = "done"
        /\ inv[p].call.tool = "list_workspaces"
        /\ HasResponse(p)
        /\ inv[p].response.kind = "http"
        /\ inv[p].response.status = 200
        /\ inv[p].response.ctype = JsonType
        /\ inv[p].response.text = "[1, \"a\\\"b\"]"
        /\ inv[p].out = "Error: TypeError: Unexpected response type from "
                        \o "'/workspaces'. Expected object, got list."

====
